---------------------------- MODULE Spec2Model ----------------------------
(***************************************************************************)
(* Model of app.py: the loan (PRICE) amortization schedule, the consortium *)
(* schedule, the cash-flow vectors and the metrics derived from them (IRR, *)
(* annualized cost, VPL, required capital).                                *)
(*                                                                         *)
(* Numbers.  Python floats are modelled as exact rationals <<n, d>> in     *)
(* lowest terms with d > 0; the pair <<0, 0>> is the float NaN.  Rounding  *)
(* error of IEEE doubles is therefore NOT represented: every equality      *)
(* below is an equality of real numbers.                                   *)
(***************************************************************************)
EXTENDS Integers, Sequences, FiniteSets, TLC

(***************************************************************************)
(* Bound of the model: the longest term (in months) that is explored.      *)
(***************************************************************************)
MaxMonths == 3

-----------------------------------------------------------------------------
(* Exact rational arithmetic standing for Python's float operators.        *)

NaN == <<0, 0>>

IsNaN(x) == x[2] = 0

Abs(i) == IF i < 0 THEN -i ELSE i

RECURSIVE GCD(_, _)
GCD(a, b) == IF b = 0 THEN a ELSE GCD(b, a % b)

Q(n, d) ==
    IF d = 0 THEN NaN
    ELSE LET g == GCD(Abs(n), Abs(d))
             s == IF d < 0 THEN -1 ELSE 1
         IN  <<(s * n) \div g, (s * d) \div g>>

QI(i) == <<i, 1>>

Zero == QI(0)

One == QI(1)

QNeg(x) == IF IsNaN(x) THEN NaN ELSE <<-x[1], x[2]>>

QAdd(x, y) ==
    IF IsNaN(x) \/ IsNaN(y) THEN NaN
    ELSE LET g == GCD(x[2], y[2])
             l == (x[2] \div g) * y[2]
         IN  Q(x[1] * (l \div x[2]) + y[1] * (l \div y[2]), l)

QSub(x, y) == QAdd(x, QNeg(y))

QMul(x, y) ==
    IF IsNaN(x) \/ IsNaN(y) THEN NaN
    ELSE LET g1 == GCD(Abs(x[1]), y[2])
             g2 == GCD(Abs(y[1]), x[2])
         IN  Q((x[1] \div g1) * (y[1] \div g2), (x[2] \div g2) * (y[2] \div g1))

\* x / y for y # 0 (every division site tests for a zero divisor first).
QDiv(x, y) ==
    IF IsNaN(x) \/ IsNaN(y) \/ y[1] = 0 THEN NaN
    ELSE QMul(x, Q(y[2], y[1]))

IsZero(x) == ~IsNaN(x) /\ x[1] = 0

\* Float comparisons: any comparison with NaN is false.
QLt(x, y) == ~IsNaN(x) /\ ~IsNaN(y) /\ x[1] * y[2] < y[1] * x[2]

QLe(x, y) == ~IsNaN(x) /\ ~IsNaN(y) /\ x[1] * y[2] <= y[1] * x[2]

\* Python's max(x, y): y only when y > x.
QMax(x, y) == IF QLt(x, y) THEN y ELSE x

\* x ** k for an integer k >= 0.
RECURSIVE QPowNat(_, _)
QPowNat(x, k) == IF k = 0 THEN One ELSE QMul(x, QPowNat(x, k - 1))

\* x ** k for any integer k; 0.0 ** k with k < 0 is a ZeroDivisionError
\* (callers test PowRaises first).
PowRaises(x, k) == k < 0 /\ IsZero(x)

QPow(x, k) == IF k >= 0 THEN QPowNat(x, k) ELSE QDiv(One, QPowNat(x, -k))

RECURSIVE QSumFrom(_, _)
QSumFrom(s, i) == IF i > Len(s) THEN Zero ELSE QAdd(s[i], QSumFrom(s, i + 1))

\* sum(s) of a sequence of numbers, starting from 0.
QSum(s) == QSumFrom(s, 1)

-----------------------------------------------------------------------------
(* annuity_payment: a call either raises or returns a number.              *)

Ok(v) == [exc |-> "none", val |-> v]

Raise(e) == [exc |-> e, val |-> NaN]

\* annuity_payment without its zero-rate branch.
annuity_payment_no_zero_rate(principal, monthly_rate, months) ==
    IF months = 0 THEN Ok(Zero)
    ELSE LET r == monthly_rate
             base == QAdd(One, r)
         IN  IF PowRaises(base, -months) THEN Raise("ZeroDivisionError")
             ELSE LET den == QSub(One, QPow(base, -months))
                  IN  IF IsZero(den) THEN Raise("ZeroDivisionError")
                      ELSE Ok(QDiv(QMul(r, principal), den))

annuity_payment(principal, monthly_rate, months) ==
    IF months = 0 THEN Ok(Zero)
    ELSE IF IsZero(monthly_rate) THEN Ok(QDiv(principal, QI(months)))
    ELSE LET r == monthly_rate
             base == QAdd(One, r)
         IN  IF PowRaises(base, -months) THEN Raise("ZeroDivisionError")
             ELSE LET den == QSub(One, QPow(base, -months))
                  IN  IF IsZero(den) THEN Raise("ZeroDivisionError")
                      ELSE Ok(QDiv(QMul(r, principal), den))

-----------------------------------------------------------------------------
(* financing_amortization_schedule: the rows of the DataFrame, as a        *)
(* sequence in insertion order.                                            *)

\* The row of period m, given the interest charged and the closing balance.
FinRow(m, balance, interest_comp, saldo_final, c) ==
    LET seguro_mensal ==
            QMul(QDiv(QDiv(c.insurance_annual_pct, QI(100)), QI(12)),
                 c.financed_amount)
        outras_taxas_mensais ==
            QMul(QDiv(QDiv(c.other_monthly_fees_pct_on_balance, QI(100)),
                      QI(12)),
                 balance)
    IN  [month |-> m,
         saldo_inicial |-> balance,
         juros |-> interest_comp,
         amortizacao |-> QSub(c.payment, interest_comp),
         seguro |-> seguro_mensal,
         outras_taxas |-> outras_taxas_mensais,
         parcela |-> QAdd(QAdd(c.payment, seguro_mensal), outras_taxas_mensais),
         saldo_final |-> saldo_final]

\* The loop with the amortization added to the balance, not taken off it.
RECURSIVE FinLoopAddsAmort(_, _, _, _, _)
FinLoopAddsAmort(m, months, balance, rows, c) ==
    IF m > months THEN rows
    ELSE LET interest_comp == QMul(c.monthly_interest, balance)
             amort == QSub(c.payment, interest_comp)
             saldo_final == QMax(QAdd(balance, amort), Zero)
         IN  FinLoopAddsAmort(m + 1, months, saldo_final, Append(rows, FinRow(m, balance, interest_comp, saldo_final, c)), c)

\* The loop with the interest charged on the financed amount every period.
RECURSIVE FinLoopFlatInterest(_, _, _, _, _)
FinLoopFlatInterest(m, months, balance, rows, c) ==
    IF m > months THEN rows
    ELSE LET interest_comp == QMul(c.monthly_interest, c.financed_amount)
             amort == QSub(c.payment, interest_comp)
             saldo_final == QMax(QSub(balance, amort), Zero)
         IN  FinLoopFlatInterest(m + 1, months, saldo_final, Append(rows, FinRow(m, balance, interest_comp, saldo_final, c)), c)

\* The body of `for m in range(1, months + 1)`, from iteration m on; c holds
\* the values computed before the loop.
RECURSIVE FinLoop(_, _, _, _, _)
FinLoop(m, months, balance, rows, c) ==
    IF m > months THEN rows
    ELSE LET interest_comp == QMul(c.monthly_interest, balance)
             amort == QSub(c.payment, interest_comp)
             saldo_final == QMax(QSub(balance, amort), Zero)
         IN  FinLoop(m + 1, months, saldo_final, Append(rows, FinRow(m, balance, interest_comp, saldo_final, c)), c)

\* A call returns [exc, val, df]: val is the fixed payment, df the rows.
financing_amortization_schedule(property_value, down_payment, months, annual_interest_pct, insurance_annual_pct, other_upfront_fees_pct, other_monthly_fees_pct_on_balance) ==
    LET financed_amount == QSub(property_value, down_payment)
        monthly_interest == QDiv(QDiv(annual_interest_pct, QI(100)), QI(12))
        pay == annuity_payment(financed_amount, monthly_interest, months)
        upfront_fee ==
            QMul(QDiv(other_upfront_fees_pct, QI(100)), financed_amount)
        row0 == [month |-> 0,
                 saldo_inicial |-> financed_amount,
                 juros |-> Zero,
                 amortizacao |-> Zero,
                 seguro |-> Zero,
                 outras_taxas |-> upfront_fee,
                 parcela |-> QAdd(down_payment, upfront_fee),
                 saldo_final |-> financed_amount]
        c == [financed_amount |-> financed_amount,
              monthly_interest |-> monthly_interest,
              payment |-> pay.val,
              insurance_annual_pct |-> insurance_annual_pct,
              other_monthly_fees_pct_on_balance |->
                  other_monthly_fees_pct_on_balance]
    IN  IF pay.exc # "none" THEN [exc |-> pay.exc, val |-> NaN, df |-> <<>>]
        ELSE [exc |-> "none", val |-> pay.val,
              df |-> FinLoop(1, months, financed_amount, <<row0>>, c)]

-----------------------------------------------------------------------------
(* compute_consorcio_cashflows                                             *)

\* The loop over range(1, months): the last period is left out.
RECURSIVE ConsLoopStopsEarly(_, _, _, _)
ConsLoopStopsEarly(m, months, rows, c) ==
    IF m >= months THEN rows
    ELSE LET row == [month |-> m,
                     amortizacao |-> c.parcel_base,
                     admin |-> c.admin_monthly,
                     reserva |-> c.reserve_monthly,
                     parcela |-> QAdd(QAdd(c.parcel_base, c.admin_monthly), c.reserve_monthly)]
         IN  ConsLoopStopsEarly(m + 1, months, Append(rows, row), c)

RECURSIVE ConsLoop(_, _, _, _)
ConsLoop(m, months, rows, c) ==
    IF m > months THEN rows
    ELSE LET parcela_total ==
                 QAdd(QAdd(c.parcel_base, c.admin_monthly), c.reserve_monthly)
             row == [month |-> m,
                     amortizacao |-> c.parcel_base,
                     admin |-> c.admin_monthly,
                     reserva |-> c.reserve_monthly,
                     parcela |-> parcela_total]
         IN  ConsLoop(m + 1, months, Append(rows, row), c)

compute_consorcio_cashflows(credit_value, months, admin_annual_pct, reserve_monthly_pct, initial_bid_payment) ==
    LET parcel_base ==
            IF months > 0 THEN QDiv(credit_value, QI(months)) ELSE Zero
        admin_monthly ==
            QMul(QDiv(QDiv(admin_annual_pct, QI(100)), QI(12)), credit_value)
        reserve_monthly ==
            QMul(QDiv(reserve_monthly_pct, QI(100)), credit_value)
        row0 == [month |-> 0,
                 amortizacao |-> Zero,
                 admin |-> Zero,
                 reserva |-> initial_bid_payment,
                 parcela |-> initial_bid_payment]
        c == [parcel_base |-> parcel_base,
              admin_monthly |-> admin_monthly,
              reserve_monthly |-> reserve_monthly]
    IN  ConsLoop(1, months, <<row0>>, c)

-----------------------------------------------------------------------------
(* Columns of a DataFrame and the cash-flow vectors.                       *)

\* df["parcela"].values
Parcelas(df) == [i \in 1..Len(df) |-> df[i].parcela]

\* The payment column taken as it is, without the change of sign.
FlowsNotNegated(df) == [i \in 1..Len(df) |-> df[i].parcela]

\* [-row for row in df["parcela"].values]
Flows(df) == [i \in 1..Len(df) |-> QNeg(df[i].parcela)]

RECURSIVE Installments(_, _)
Installments(df, i) ==
    IF i > Len(df) THEN <<>>
    ELSE IF df[i].month # 0 THEN <<df[i].parcela>> \o Installments(df, i + 1)
    ELSE Installments(df, i + 1)

\* The mean of the whole column, period 0 included.
avg_parcel_with_period0(df) ==
    IF Len(df) = 0 THEN NaN ELSE QDiv(QSum(Parcelas(df)), QI(Len(df)))

\* df.loc[df["month"] != 0, "parcela"].mean(): NaN for an empty selection.
avg_parcel(df) ==
    LET sel == Installments(df, 1)
    IN  IF Len(sel) = 0 THEN NaN ELSE QDiv(QSum(sel), QI(Len(sel)))

-----------------------------------------------------------------------------
(* monthly_irr_from_cashflows and to_annual_from_monthly.  A rate is kept  *)
(* by its kind only: "nan" (np.nan) or "num" (a finite number).            *)

\* sum(values[i] * x**i): the polynomial whose roots np.irr looks for.
RECURSIVE PolyFrom(_, _, _)
PolyFrom(values, x, i) ==
    IF i > Len(values) THEN Zero
    ELSE QAdd(values[i], QMul(x, PolyFrom(values, x, i + 1)))

PolyAt(values, x) == PolyFrom(values, x, 1)

\* Sample points x = 1/(1+rate) > 0 between which a root is looked for.
Grid == {Q(a, b) : a \in 1..4, b \in 1..4}

\* numpy.irr (numpy < 1.20): the rate of a real root x > 0 of the polynomial,
\* np.nan when there is none (an empty or all-zero vector has no roots).
np_irr(values) ==
    IF /\ \E i \in 1..Len(values) : ~IsZero(values[i])
       /\ \E x \in Grid : QLe(PolyAt(values, x), Zero)
       /\ \E y \in Grid : QLe(Zero, PolyAt(values, y))
    THEN "num"
    ELSE "nan"

\* The call of np.irr without the try/except around it.
monthly_irr_no_except(cashflows, has_irr) ==
    IF has_irr THEN np_irr(cashflows) ELSE "AttributeError"

\* has_irr: whether the installed numpy still has np.irr; without it the
\* attribute lookup raises inside the try and the except returns np.nan.
monthly_irr_from_cashflows(cashflows, has_irr) ==
    IF has_irr THEN np_irr(cashflows) ELSE "nan"

to_annual_from_monthly(monthly_rate) ==
    IF monthly_rate = "nan" THEN "nan" ELSE "num"

-----------------------------------------------------------------------------
(* compute_vpl.  A call returns [kind, val]: kind "amount" with the float  *)
(* val, kind "complex" (a Python complex is returned), or the name of the  *)
(* exception raised.                                                       *)

\* Rationals among which a twelfth root is looked up.
RootCandidates == {Q(a, b) : a \in 0..2, b \in 1..2}

\* x ** (1/12) for x >= 0; the model only draws x with a rational root.
Root12(x) == CHOOSE y \in RootCandidates : QPowNat(y, 12) = x

\* compute_vpl with the monthly rate taken as factor ** (1/12), the "- 1"
\* forgotten.
compute_vpl_no_minus_one(cashflows, annual_discount_pct) ==
    LET factor == QAdd(One, QDiv(annual_discount_pct, QI(100)))
    IN  IF QLt(factor, Zero)
        THEN IF Len(cashflows) = 0 THEN [kind |-> "amount", val |-> Zero]
             ELSE [kind |-> "complex", val |-> NaN]
        ELSE LET monthly_discount == Root12(factor)
                 base == QAdd(One, monthly_discount)
                 terms == [i \in 1..Len(cashflows) |->
                              QDiv(cashflows[i], QPowNat(base, i - 1))]
             IN  [kind |-> "amount", val |-> QSum(terms)]

compute_vpl(cashflows, annual_discount_pct) ==
    LET factor == QAdd(One, QDiv(annual_discount_pct, QI(100)))
    IN  IF QLt(factor, Zero)
        THEN \* a negative float to the power 1/12 is a complex number
             IF Len(cashflows) = 0 THEN [kind |-> "amount", val |-> Zero]
             ELSE [kind |-> "complex", val |-> NaN]
        ELSE LET monthly_discount == QSub(Root12(factor), One)
                 base == QAdd(One, monthly_discount)
                 terms == [i \in 1..Len(cashflows) |->
                              QDiv(cashflows[i], QPowNat(base, i - 1))]
             IN  IF \E i \in 1..Len(cashflows) : IsZero(QPowNat(base, i - 1))
                 THEN [kind |-> "ZeroDivisionError", val |-> NaN]
                 ELSE [kind |-> "amount", val |-> QSum(terms)]

-----------------------------------------------------------------------------
(* required_capital_to_cover_payment                                       *)

\* The guard testing for a zero yield only.
required_capital_zero_only(monthly_payment, monthly_return_pct) ==
    IF IsZero(monthly_return_pct) THEN NaN
    ELSE QDiv(monthly_payment, monthly_return_pct)

required_capital_to_cover_payment(monthly_payment, monthly_return_pct) ==
    IF QLe(monthly_return_pct, Zero) THEN NaN
    ELSE QDiv(monthly_payment, monthly_return_pct)

-----------------------------------------------------------------------------
(* Inputs.  The form's widgets return floats (st.number_input); the sets   *)
(* below are the values the model draws for them.  Percentages are chosen  *)
(* so that every intermediate value is a small rational.                   *)

PropertyValues == {QI(60), QI(120)}

DownPayments == {QI(0), QI(60), QI(120)}

\* The widgets offer 6..480 months; the functions themselves accept any
\* integer, and the short and degenerate terms are the ones drawn here.
Months == -1..MaxMonths

\* Annual rates of 0 %, 600 % and 1200 %: monthly rates 0, 1/2 and 1.
InterestPcts == {QI(0), QI(600), QI(1200)}

\* <<insurance_annual_pct, other_upfront_fees_pct, other_monthly_fees_pct>>
LoanFeePcts == {<<QI(0), QI(0), QI(0)>>, <<QI(0), QI(10), QI(600)>>, <<QI(120), QI(10), QI(600)>>}

CreditValues == {QI(120)}

\* <<admin_annual_pct, reserve_monthly_pct>>
ConsFeePcts == {<<QI(120), QI(5)>>}

InitialBids == {QI(0), QI(30)}

\* annual discount rates (%): the factors 1 + pct/100 are -1, 0, 1/4096, 1, 4096
DiscountPcts == {QI(-200), QI(-100), Q(-102375, 1024), QI(0), QI(409500)}

ReturnPcts == {QI(-1), QI(0), QI(1)}

\* Arguments of the direct calls of the metric functions.
TestAmounts == {QI(-2), QI(-1), QI(0), QI(1), QI(3)}

TestVectors == UNION {[1..n -> TestAmounts] : n \in 0..2} \cup {<<QI(-3), QI(1), QI(1), QI(1)>>, <<QI(-1), QI(-1), QI(-1), QI(-1)>>, <<QI(1), QI(-3), QI(2)>>, <<QI(1), QI(-2), QI(3)>>}

TestPayments == {QI(1000), QI(0), QI(-5), NaN}

TestFractions == {Q(1, 100), Q(-1, 100), QI(0), Q(1, 200)}

-----------------------------------------------------------------------------
(* State: the script's variables, the position in the script, and the last *)
(* direct call of a metric function.                                       *)

VARIABLES pc, error, fin, df_amort, flows_fin, cons, df_cons, flows_cons, irr_fin_monthly, irr_cons_monthly, cet_fin_annual, cet_cons_annual, avg_parcel_fin, avg_parcel_cons, annual_discount_rate, vpl_fin, vpl_cons, monthly_return_pct_input, required_capital_fin, required_capital_cons, call

vars == <<pc, error, fin, df_amort, flows_fin, cons, df_cons, flows_cons, irr_fin_monthly, irr_cons_monthly, cet_fin_annual, cet_cons_annual, avg_parcel_fin, avg_parcel_cons, annual_discount_rate, vpl_fin, vpl_cons, monthly_return_pct_input, required_capital_fin, required_capital_cons, call>>

NoTerms == [months |-> 0]

NoVpl == [kind |-> "none", val |-> NaN]

NoCall == [fn |-> "none", cashflows |-> <<>>, x |-> NaN, y |-> NaN, kind |-> "none", val |-> NaN]

\* The script before the form is submitted: nothing is computed (st.stop()).
Init ==
    /\ pc = "form"
    /\ error = "none"
    /\ fin = NoTerms
    /\ df_amort = <<>>
    /\ flows_fin = <<>>
    /\ cons = NoTerms
    /\ df_cons = <<>>
    /\ flows_cons = <<>>
    /\ irr_fin_monthly = "nan"
    /\ irr_cons_monthly = "nan"
    /\ cet_fin_annual = "nan"
    /\ cet_cons_annual = "nan"
    /\ avg_parcel_fin = NaN
    /\ avg_parcel_cons = NaN
    /\ annual_discount_rate = NaN
    /\ vpl_fin = NoVpl
    /\ vpl_cons = NoVpl
    /\ monthly_return_pct_input = NaN
    /\ required_capital_fin = NaN
    /\ required_capital_cons = NaN
    /\ call = NoCall

\* df_amort = financing_amortization_schedule(...); flows_fin = [-row ...]
CalcFinancing ==
    /\ pc = "form"
    /\ call = NoCall
    /\ \E pv \in PropertyValues, dp \in DownPayments, n \in Months, rate \in InterestPcts, fee \in LoanFeePcts :
          LET r == financing_amortization_schedule(pv, dp, n, rate, fee[1], fee[2], fee[3])
          IN  /\ fin' = [property_value |-> pv, down_payment |-> dp, months |-> n, annual_rate |-> rate, insurance_pct |-> fee[1], upfront_pct |-> fee[2], monthly_fee_pct |-> fee[3]]
              /\ IF r.exc = "none"
                 THEN /\ df_amort' = r.df
                      /\ flows_fin' = Flows(r.df)
                      /\ pc' = "fin"
                      /\ error' = error
                 ELSE /\ UNCHANGED <<df_amort, flows_fin>>
                      /\ pc' = "crashed"
                      /\ error' = r.exc
    /\ UNCHANGED <<call, cons, df_cons, flows_cons, irr_fin_monthly, irr_cons_monthly, cet_fin_annual, cet_cons_annual, avg_parcel_fin, avg_parcel_cons, annual_discount_rate, vpl_fin, vpl_cons, monthly_return_pct_input, required_capital_fin, required_capital_cons>>

\* df_cons = compute_consorcio_cashflows(...); flows_cons = [-row ...]
CalcConsorcio ==
    /\ pc = "fin"
    /\ \E cv \in CreditValues, n \in Months, fee \in ConsFeePcts, bid \in InitialBids :
          /\ cons' = [credit_value |-> cv, months |-> n, admin_annual_pct |-> fee[1], reserve_monthly_pct |-> fee[2], initial_bid |-> bid]
          /\ df_cons' = compute_consorcio_cashflows(cv, n, fee[1], fee[2], bid)
          /\ flows_cons' = Flows(df_cons')
    /\ pc' = "cons"
    /\ UNCHANGED <<error, fin, df_amort, flows_fin, irr_fin_monthly, irr_cons_monthly, cet_fin_annual, cet_cons_annual, avg_parcel_fin, avg_parcel_cons, annual_discount_rate, vpl_fin, vpl_cons, monthly_return_pct_input, required_capital_fin, required_capital_cons, call>>

\* irr_*_monthly = monthly_irr_from_cashflows(...); cet_*_annual = to_annual...
CalcCET ==
    /\ pc = "cons"
    /\ \E has_irr \in BOOLEAN :
          /\ irr_fin_monthly' = monthly_irr_from_cashflows(flows_fin, has_irr)
          /\ irr_cons_monthly' = monthly_irr_from_cashflows(flows_cons, has_irr)
    /\ cet_fin_annual' = to_annual_from_monthly(irr_fin_monthly')
    /\ cet_cons_annual' = to_annual_from_monthly(irr_cons_monthly')
    /\ pc' = "cet"
    /\ UNCHANGED <<error, fin, df_amort, flows_fin, cons, df_cons, flows_cons, avg_parcel_fin, avg_parcel_cons, annual_discount_rate, vpl_fin, vpl_cons, monthly_return_pct_input, required_capital_fin, required_capital_cons, call>>

\* avg_parcel_* = df.loc[df["month"] != 0, "parcela"].mean()
CalcAvg ==
    /\ pc = "cet"
    /\ avg_parcel_fin' = avg_parcel(df_amort)
    /\ avg_parcel_cons' = avg_parcel(df_cons)
    /\ pc' = "avg"
    /\ UNCHANGED <<error, fin, df_amort, flows_fin, cons, df_cons, flows_cons, irr_fin_monthly, irr_cons_monthly, cet_fin_annual, cet_cons_annual, annual_discount_rate, vpl_fin, vpl_cons, monthly_return_pct_input, required_capital_fin, required_capital_cons, call>>

\* vpl_fin = compute_vpl(...); vpl_cons = compute_vpl(...): an exception
\* raised by either call ends the script.
CalcVPL ==
    /\ pc = "avg"
    /\ \E pct \in DiscountPcts :
          LET vf == compute_vpl(flows_fin, pct)
              vc == compute_vpl(flows_cons, pct)
          IN  /\ annual_discount_rate' = pct
              /\ IF vf.kind = "ZeroDivisionError"
                 THEN /\ pc' = "crashed"
                      /\ error' = vf.kind
                      /\ UNCHANGED <<vpl_fin, vpl_cons>>
                 ELSE IF vc.kind = "ZeroDivisionError"
                 THEN /\ pc' = "crashed"
                      /\ error' = vc.kind
                      /\ vpl_fin' = vf
                      /\ UNCHANGED vpl_cons
                 ELSE /\ pc' = "vpl"
                      /\ error' = error
                      /\ vpl_fin' = vf
                      /\ vpl_cons' = vc
    /\ UNCHANGED <<fin, df_amort, flows_fin, cons, df_cons, flows_cons, irr_fin_monthly, irr_cons_monthly, cet_fin_annual, cet_cons_annual, avg_parcel_fin, avg_parcel_cons, monthly_return_pct_input, required_capital_fin, required_capital_cons, call>>

\* monthly_return_frac = monthly_return_pct_input / 100.0; required_capital_*
CalcRequiredCapital ==
    /\ pc = "vpl"
    /\ \E pct \in ReturnPcts :
          LET monthly_return_frac == QDiv(pct, QI(100))
          IN  /\ monthly_return_pct_input' = pct
              /\ required_capital_fin' = required_capital_to_cover_payment(avg_parcel_fin, monthly_return_frac)
              /\ required_capital_cons' = required_capital_to_cover_payment(avg_parcel_cons, monthly_return_frac)
    /\ pc' = "done"
    /\ UNCHANGED <<error, fin, df_amort, flows_fin, cons, df_cons, flows_cons, irr_fin_monthly, irr_cons_monthly, cet_fin_annual, cet_cons_annual, avg_parcel_fin, avg_parcel_cons, annual_discount_rate, vpl_fin, vpl_cons, call>>

\* Streamlit runs the script again from the top on the next interaction; a
\* direct call is over once its result is observed.
Rerun ==
    /\ pc \in {"done", "crashed"} \/ call # NoCall
    /\ pc' = "form"
    /\ error' = "none"
    /\ fin' = NoTerms
    /\ df_amort' = <<>>
    /\ flows_fin' = <<>>
    /\ cons' = NoTerms
    /\ df_cons' = <<>>
    /\ flows_cons' = <<>>
    /\ irr_fin_monthly' = "nan"
    /\ irr_cons_monthly' = "nan"
    /\ cet_fin_annual' = "nan"
    /\ cet_cons_annual' = "nan"
    /\ avg_parcel_fin' = NaN
    /\ avg_parcel_cons' = NaN
    /\ annual_discount_rate' = NaN
    /\ vpl_fin' = NoVpl
    /\ vpl_cons' = NoVpl
    /\ monthly_return_pct_input' = NaN
    /\ required_capital_fin' = NaN
    /\ required_capital_cons' = NaN
    /\ call' = NoCall

pipeline == <<error, fin, df_amort, flows_fin, cons, df_cons, flows_cons, irr_fin_monthly, irr_cons_monthly, cet_fin_annual, cet_cons_annual, avg_parcel_fin, avg_parcel_cons, annual_discount_rate, vpl_fin, vpl_cons, monthly_return_pct_input, required_capital_fin, required_capital_cons>>

\* A direct call monthly_irr_from_cashflows(v).
CallIrr ==
    /\ pc = "form"
    /\ call = NoCall
    /\ \E v \in TestVectors, has_irr \in BOOLEAN :
          call' = [fn |-> "monthly_irr_from_cashflows", cashflows |-> v, x |-> NaN, y |-> NaN, kind |-> monthly_irr_from_cashflows(v, has_irr), val |-> NaN]
    /\ UNCHANGED <<pc, pipeline>>

\* A direct call compute_vpl(v, pct).
CallVpl ==
    /\ pc = "form"
    /\ call = NoCall
    /\ \E v \in TestVectors, pct \in DiscountPcts :
          LET r == compute_vpl(v, pct)
          IN  call' = [fn |-> "compute_vpl", cashflows |-> v, x |-> pct, y |-> NaN, kind |-> r.kind, val |-> r.val]
    /\ UNCHANGED <<pc, pipeline>>

\* A direct call required_capital_to_cover_payment(p, f).
CallRequiredCapital ==
    /\ pc = "form"
    /\ call = NoCall
    /\ \E p \in TestPayments, f \in TestFractions :
          call' = [fn |-> "required_capital_to_cover_payment", cashflows |-> <<>>, x |-> p, y |-> f, kind |-> "returned", val |-> required_capital_to_cover_payment(p, f)]
    /\ UNCHANGED <<pc, pipeline>>

Next ==
    \/ CalcFinancing
    \/ CalcConsorcio
    \/ CalcCET
    \/ CalcAvg
    \/ CalcVPL
    \/ CalcRequiredCapital
    \/ Rerun
    \/ CallIrr
    \/ CallVpl
    \/ CallRequiredCapital

Spec == Init /\ [][Next]_vars

-----------------------------------------------------------------------------
(* Vocabulary of the properties.                                           *)

\* The loan schedule has been returned and not yet discarded by a rerun.
FinDone == Len(df_amort) > 0

\* The consortium schedule has been returned.
ConsDone == Len(df_cons) > 0

\* financing_amortization_schedule has been called in this run.
FinCalled == pc # "form"

FinancedAmount == QSub(fin.property_value, fin.down_payment)

\* closingBalance of period m (row m + 1 of the DataFrame).
ClosingBalance(m) == df_amort[m + 1].saldo_final

BalanceNeverRises ==
    /\ QLe(Zero, ClosingBalance(0))
    /\ \A m \in 1..(Len(df_amort) - 1) :
          /\ QLe(Zero, ClosingBalance(m))
          /\ QLe(ClosingBalance(m), ClosingBalance(m - 1))

\* The rows are those of periods 0, 1, ..., months, in that order.
PeriodsInOrder(df, months) ==
    /\ Len(df) = months + 1
    /\ \A i \in 1..Len(df) : df[i].month = i - 1

-----------------------------------------------------------------------------
(* C1 *)

\* C1, as stated: for every loan (the rate is never negative here), also one
\* whose financed amount is zero or negative, closingBalance[0] >= 0 and
\* 0 <= closingBalance[m] <= closingBalance[m-1] for every period m >= 1.
C1_BalanceNeverRisesAnyLoan == FinDone => BalanceNeverRises

\* C1, amended: the same for every loan whose financed amount is not negative.
C1_BalanceNeverRises ==
    (FinDone /\ QLe(Zero, FinancedAmount)) => BalanceNeverRises

\* A loan of two or more periods at a positive rate whose balance went down.
C1_Witness ==
    /\ FinDone
    /\ fin.months >= 2
    /\ QLt(Zero, fin.annual_rate)
    /\ QLt(Zero, FinancedAmount)
    /\ QLt(ClosingBalance(1), ClosingBalance(0))
    /\ QLt(ClosingBalance(2), ClosingBalance(1))

-----------------------------------------------------------------------------
(* C2 *)

\* C2: for every term months >= 0, each of the two schedules has exactly
\* months + 1 rows, whose period indices are 0, 1, ..., months in that order.
C2_PeriodsInOrder ==
    /\ (FinDone /\ fin.months >= 0) => PeriodsInOrder(df_amort, fin.months)
    /\ (ConsDone /\ cons.months >= 0) => PeriodsInOrder(df_cons, cons.months)

\* Both schedules returned, each with several periods, and one with none.
C2_Witness ==
    /\ FinDone
    /\ ConsDone
    /\ fin.months >= 2
    /\ cons.months = 0
    /\ Len(df_amort) = fin.months + 1
    /\ Len(df_cons) = 1

-----------------------------------------------------------------------------
(* C3 *)

\* C3, as stated: a call of the scheduler with a negative term returns no
\* schedule and signals InvalidInputError; with a term >= 0 it does not fail.
C3_NegativeTermRejected ==
    FinCalled =>
        IF fin.months < 0
        THEN ~FinDone /\ error = "InvalidInputError"
        ELSE FinDone

-----------------------------------------------------------------------------
(* C4 *)

\* No two entries of the vector have opposite signs.
NoSignChange(v) ==
    ~ \E i \in 1..Len(v), j \in 1..Len(v) : QLt(v[i], Zero) /\ QLt(Zero, v[j])

\* C4: monthly_irr_from_cashflows returns np.nan (it neither raises nor
\* returns a number) for every vector that has no sign change or has fewer
\* than 2 entries.
C4_NoSignChangeIsUndefined ==
    (/\ call.fn = "monthly_irr_from_cashflows"
     /\ NoSignChange(call.cashflows) \/ Len(call.cashflows) < 2)
        => call.kind = "nan"

\* A call on a vector of two or more entries, all negative, returned np.nan.
C4_Witness ==
    /\ call.fn = "monthly_irr_from_cashflows"
    /\ Len(call.cashflows) >= 2
    /\ \A i \in 1..Len(call.cashflows) : QLt(call.cashflows[i], Zero)
    /\ call.kind = "nan"

-----------------------------------------------------------------------------
(* C5 *)

\* C5, as stated: compute_vpl signals InvalidInputError for every annual
\* discount rate <= -100 (no amount, no other exception) and returns an
\* amount for every rate > -100.
C5_DiscountDomainRejected ==
    call.fn = "compute_vpl" =>
        IF QLe(call.x, QI(-100))
        THEN call.kind = "InvalidInputError"
        ELSE call.kind = "amount"

-----------------------------------------------------------------------------
(* C6 *)

\* principalComponent of periods 1..months.
Principals == [i \in 1..(Len(df_amort) - 1) |-> df_amort[i + 1].amortizacao]

\* interestComponent of periods 1..months.
Interests == [i \in 1..(Len(df_amort) - 1) |-> df_amort[i + 1].juros]

-----------------------------------------------------------------------------
(* C7 *)

\* C7: required_capital_to_cover_payment(p, f) is np.nan for every f <= 0;
\* for f > 0 it is the number c with c * f = p (np.nan when p is np.nan);
\* (1000, 0) and (1000, -0.01) give np.nan and (1000, 0.01) gives 100000.
C7_RequiredCapital ==
    call.fn = "required_capital_to_cover_payment" =>
        /\ call.kind = "returned"
        /\ QLe(call.y, Zero) => IsNaN(call.val)
        /\ QLt(Zero, call.y) =>
              IF IsNaN(call.x) THEN IsNaN(call.val)
              ELSE ~IsNaN(call.val) /\ QMul(call.val, call.y) = call.x
        /\ (call.x = QI(1000) /\ call.y = Q(1, 100)) => call.val = QI(100000)

\* The call (1000, -0.01) returned np.nan.
C7_Witness ==
    /\ call.fn = "required_capital_to_cover_payment"
    /\ call.x = QI(1000)
    /\ call.y = Q(-1, 100)
    /\ IsNaN(call.val)

-----------------------------------------------------------------------------
(* C8 *)

\* C8: at an annual discount rate of 0, compute_vpl returns the plain sum of
\* the vector's entries, for the empty vector too; in the script, vpl_fin
\* and vpl_cons are then the sums of flows_fin and flows_cons.
C8_ZeroDiscountIsSum ==
    /\ (call.fn = "compute_vpl" /\ IsZero(call.x))
          => call.kind = "amount" /\ call.val = QSum(call.cashflows)
    /\ (pc \in {"vpl", "done"} /\ IsZero(annual_discount_rate))
          => /\ vpl_fin = [kind |-> "amount", val |-> QSum(flows_fin)]
             /\ vpl_cons = [kind |-> "amount", val |-> QSum(flows_cons)]

\* A call at rate 0 on a vector of four entries with a non-zero sum.
C8_Witness ==
    /\ call.fn = "compute_vpl"
    /\ IsZero(call.x)
    /\ Len(call.cashflows) = 4
    /\ call.val = QI(-4)

-----------------------------------------------------------------------------
(* C9 *)

\* Period 0 of both schedules is the disbursement only.
Period0IsDisbursement ==
    /\ df_amort[1].parcela = QAdd(fin.down_payment, df_amort[1].outras_taxas)
    /\ df_amort[1].outras_taxas = QMul(QDiv(fin.upfront_pct, QI(100)), FinancedAmount)
    /\ IsZero(df_amort[1].juros) /\ IsZero(df_amort[1].amortizacao)
    /\ df_cons[1].parcela = cons.initial_bid
    /\ IsZero(df_cons[1].amortizacao) /\ IsZero(df_cons[1].admin)

\* avg is the mean of totalPayment over periods 1..months of df (np.nan when
\* there is no such period).
IsMeanOfInstallments(avg, df) ==
    IF Len(df) = 1 THEN IsNaN(avg)
    ELSE QMul(avg, QI(Len(df) - 1)) = QSum(SubSeq(Parcelas(df), 2, Len(df)))

\* The average payment of the loan of this run with property value pv and
\* down payment dp instead of its own.
AvgFinWith(pv, dp) == avg_parcel(financing_amortization_schedule(pv, dp, fin.months, fin.annual_rate, fin.insurance_pct, fin.upfront_pct, fin.monthly_fee_pct).df)

\* The average payment of the consortium of this run with initial bid bid.
AvgConsWith(bid) == avg_parcel(compute_consorcio_cashflows(cons.credit_value, cons.months, cons.admin_annual_pct, cons.reserve_monthly_pct, bid))

CapitalFor(avg) == required_capital_to_cover_payment(avg, QDiv(monthly_return_pct_input, QI(100)))

\* C9, as stated: period 0 is the disbursement only, the average payment is
\* the mean over periods 1..months, and another down payment or another
\* initial bid, all else equal, gives the same average payment and the same
\* required capital.
C9_UpfrontNeverChangesAverage ==
    /\ pc \in {"avg", "vpl", "done"} =>
          /\ Period0IsDisbursement
          /\ IsMeanOfInstallments(avg_parcel_fin, df_amort)
          /\ IsMeanOfInstallments(avg_parcel_cons, df_cons)
          /\ \A dp \in DownPayments : AvgFinWith(fin.property_value, dp) = avg_parcel_fin
          /\ \A bid \in InitialBids : AvgConsWith(bid) = avg_parcel_cons
    /\ pc = "done" =>
          /\ \A dp \in DownPayments : CapitalFor(AvgFinWith(fin.property_value, dp)) = required_capital_fin
          /\ \A bid \in InitialBids : CapitalFor(AvgConsWith(bid)) = required_capital_cons

\* C9, amended: period 0 is the disbursement only, the average payment is the
\* mean over periods 1..months, another initial bid gives the same consortium
\* average and required capital, and another down payment gives the same
\* loan average and required capital when the financed amount
\* property_value - down_payment is the same.
C9_DisbursementNotInAverage ==
    /\ pc \in {"avg", "vpl", "done"} =>
          /\ Period0IsDisbursement
          /\ IsMeanOfInstallments(avg_parcel_fin, df_amort)
          /\ IsMeanOfInstallments(avg_parcel_cons, df_cons)
          /\ \A pv \in PropertyValues, dp \in DownPayments :
                QSub(pv, dp) = FinancedAmount => AvgFinWith(pv, dp) = avg_parcel_fin
          /\ \A bid \in InitialBids : AvgConsWith(bid) = avg_parcel_cons
    /\ pc = "done" =>
          /\ \A pv \in PropertyValues, dp \in DownPayments :
                QSub(pv, dp) = FinancedAmount =>
                    CapitalFor(AvgFinWith(pv, dp)) = required_capital_fin
          /\ \A bid \in InitialBids : CapitalFor(AvgConsWith(bid)) = required_capital_cons

\* A finished run with a down payment, an upfront fee and an initial bid, in
\* which both required capitals are numbers, and for which another pair of
\* property value and down payment has the same financed amount.
C9_Witness ==
    /\ pc = "done"
    /\ QLt(Zero, fin.down_payment)
    /\ QLt(Zero, df_amort[1].outras_taxas)
    /\ QLt(Zero, cons.initial_bid)
    /\ fin.months >= 2
    /\ cons.months >= 2
    /\ ~IsNaN(required_capital_fin)
    /\ ~IsNaN(required_capital_cons)
    /\ \E pv \in PropertyValues, dp \in DownPayments :
          dp # fin.down_payment /\ QSub(pv, dp) = FinancedAmount

-----------------------------------------------------------------------------
(* C10 *)

-----------------------------------------------------------------------------
(* C11 *)

\* flows is the payment column of df with every sign changed, period 0
\* included, and none of its entries is positive.
NegatedPayments(flows, df) ==
    /\ Len(flows) = Len(df)
    /\ \A i \in 1..Len(df) :
          /\ QAdd(flows[i], df[i].parcela) = Zero
          /\ QLe(flows[i], Zero)

\* The loan's terms are not negative and the down payment does not exceed
\* the property value (rates and fees are never negative here).
LoanTermsInDomain ==
    /\ fin.months >= 0
    /\ QLe(Zero, fin.down_payment)
    /\ QLe(fin.down_payment, fin.property_value)

\* The consortium's terms are not negative.
ConsTermsInDomain ==
    /\ cons.months >= 0
    /\ QLe(Zero, cons.credit_value)
    /\ QLe(Zero, cons.initial_bid)

\* The rates of this run have been computed.
RatesComputed == pc \in {"cet", "avg", "vpl", "done"}

\* C11: in the script each cash-flow vector is the negated payment column of
\* its schedule, period 0 included; for non-negative terms with down payment
\* <= property value no entry of either vector is positive, so the vectors
\* given to the rate solver have no sign change, and the monthly rate and
\* its annualized value (CET) are np.nan, for the loan and the consortium.
C11_RatesAlwaysUndefined ==
    /\ (FinDone /\ LoanTermsInDomain) =>
          /\ NegatedPayments(flows_fin, df_amort)
          /\ NoSignChange(flows_fin)
          /\ RatesComputed => irr_fin_monthly = "nan" /\ cet_fin_annual = "nan"
    /\ (ConsDone /\ ConsTermsInDomain) =>
          /\ NegatedPayments(flows_cons, df_cons)
          /\ NoSignChange(flows_cons)
          /\ RatesComputed => irr_cons_monthly = "nan" /\ cet_cons_annual = "nan"

\* A run past the rates, with an interest-bearing loan and a consortium of
\* several periods, every flow of which is an outflow, and both rates np.nan.
C11_Witness ==
    /\ RatesComputed
    /\ LoanTermsInDomain
    /\ ConsTermsInDomain
    /\ fin.months >= 2
    /\ cons.months >= 2
    /\ QLt(Zero, fin.annual_rate)
    /\ QLt(Zero, fin.down_payment)
    /\ QLt(Zero, cons.initial_bid)
    /\ \A i \in 1..Len(flows_fin) : QLt(flows_fin[i], Zero)
    /\ \A i \in 1..Len(flows_cons) : QLt(flows_cons[i], Zero)
    /\ irr_fin_monthly = "nan"
    /\ cet_cons_annual = "nan"

=============================================================================
